---- MODULE Spec2Model ----
(***************************************************************************)
(* A model of GEB72/st-stdp: the plasticity rules of synapses.py           *)
(* (DiehlAndCookSynapses) and the functions and the per-example loop of    *)
(* Diehl&Cook_spiking_MNIST_Brian2.py.                                     *)
(*                                                                         *)
(* Numbers.  The program computes in floating point.  Here a dimensionless *)
(* real r (weights, traces, learning rates) is the integer r * FP, rounded *)
(* down; products and quotients round down (Mul, FDiv). A time is a number *)
(* of tenths of a millisecond, a voltage a number of nanovolts.            *)
(*                                                                         *)
(* Specifications.  SpecSyn: the handlers of one synapse (variable syn).   *)
(* SpecFn: the functions of the script, applied to drawn arguments         *)
(* (variable fn).  Spec and FairSpec: main and its network (variables env, *)
(* net, run).  SpecNrn: one excitatory neuron, time step by time step      *)
(* (variable nrn).  SpecWin: the bookkeeping of the loop of main over a     *)
(* longer update interval, with the spikes of a run drawn instead of       *)
(* simulated (variable win).  A specification holds the variables of the   *)
(* others idle.                                                            *)
(***************************************************************************)
EXTENDS Integers, Sequences, FiniteSets, TLC

VARIABLES syn, fn, env, net, run, nrn, win

vars == <<syn, fn, env, net, run, nrn, win>>

\* the fixed-point unit, the real number 1.0: the resolution is that of the
\* smallest learning rate, 0.0001
FP == 100 * 100
\* one millisecond and one second, in tenths of a millisecond
ms == 10
second == 1000 * ms
\* one millivolt, in nanovolts
mV == 1000000

Min(a, b) == IF a < b THEN a ELSE b
Max(a, b) == IF a > b THEN a ELSE b
Mul(a, b) == (a * b) \div FP
Range(f) == {f[k] : k \in DOMAIN f}

\* exp(n) for an integer n, in fixed point (0 below e^-9)
EPow(n) ==
    CASE n = 1 -> 27183 [] n = 0 -> FP [] n = -1 -> 3679 [] n = -2 -> 1353
      [] n = -3 -> 498 [] n = -4 -> 183 [] n = -5 -> 67 [] n = -6 -> 25
      [] n = -7 -> 9 [] n = -8 -> 3 [] n = -9 -> 1 [] OTHER -> 0

\* exp(y) for a fixed-point y < 2.0: e^floor(y) times the Taylor series of
\* exp on the fractional part, to the fifth power
exp(y) ==
    LET n  == y \div FP
        f  == y - n * FP
        t2 == (f * f) \div (2 * FP)
        t3 == (t2 * f) \div (3 * FP)
        t4 == (t3 * f) \div (4 * FP)
        t5 == (t4 * f) \div (5 * FP)
    IN  (EPow(n) * (FP + f + t2 + t3 + t4 + t5)) \div FP

\* x ** n for a fixed-point x and an integer exponent n >= 0
RECURSIVE Pow(_, _)
Pow(x, n) == IF n = 0 THEN FP ELSE Mul(Pow(x, n - 1), x)

\* The floating-point values that are no real numbers: the result of 0 * inf
\* or 0 / 0, and the result of x / 0 for x > 0.
NaN == 0 - 2 * 1000 * 1000 * 1000
Inf == 1000 * 1000 * 1000
IsFinite(a) == a # NaN /\ a # Inf
FAdd(a, b) ==
    IF a = NaN \/ b = NaN THEN NaN ELSE IF a = Inf \/ b = Inf THEN Inf ELSE a + b
\* a / b for a >= 0 and b >= 0, in fixed point
FDiv(a, b) ==
    IF a = NaN \/ b = NaN THEN NaN
    ELSE IF b = Inf THEN (IF a = Inf THEN NaN ELSE 0)
    ELSE IF a = Inf THEN Inf
    ELSE IF b = 0 THEN (IF a = 0 THEN NaN ELSE Inf)
    ELSE (a * FP) \div b
\* a * b for a >= 0 and b >= 0, in fixed point
FMul(a, b) ==
    IF a = NaN \/ b = NaN THEN NaN
    ELSE IF a = Inf \/ b = Inf THEN (IF a = 0 \/ b = 0 THEN NaN ELSE Inf)
    ELSE Mul(a, b)

\* the clip function of the Brian2 equation strings (numpy.clip: a NaN stays
\* a NaN)
clip_unbounded(x, lo, hi) == IF x = NaN THEN NaN ELSE IF x < lo THEN lo ELSE x
clip(x, lo, hi) ==
    IF x = NaN THEN NaN ELSE IF x < lo THEN lo ELSE IF x > hi THEN hi ELSE x

(***************************************************************************)
(* synapses.py: class DiehlAndCookSynapses                                 *)
(***************************************************************************)
STDP_RULES == {"original", "minimal-triplet", "full-triplet", "powerlaw",
               "exponential", "symmetric"}
STP_RULES == {"tsodyks", "markham", "moraitis"}

\* nu_factor=None
None == 0 - 1

create_stdp_namespace(stdp_rule) ==
    CASE stdp_rule = "original" ->
           ("tc_pre_ee" :> 20 * ms @@ "tc_post_1_ee" :> 20 * ms @@
            "tc_post_2_ee" :> 40 * ms @@ "nu_ee_pre" :> FP \div 10000 @@
            "nu_ee_post" :> FP \div 100 @@ "wmax_ee" :> FP)
      [] stdp_rule = "minimal-triplet" ->
           ("tc_pre" :> 20 * ms @@ "tc_post1" :> 20 * ms @@
            "tc_post2" :> 40 * ms @@ "nu_pair_pre" :> FP \div 10000 @@
            "nu_triple_post" :> FP \div 100 @@ "wmax" :> FP)
      [] stdp_rule = "full-triplet" ->
           ("tc_pre1" :> 168 @@ "tc_pre2" :> 714 * ms @@ "tc_post1" :> 337 @@
            "tc_post2" :> 40 * ms @@ "nu_pair_pre" :> (66 * FP) \div 10000 @@
            "nu_triple_pre" :> (31 * FP) \div 10000 @@
            \* 8.8e-11 is below the fixed-point resolution
            "nu_pair_post" :> 0 @@
            "nu_triple_post" :> (530 * FP) \div 10000 @@ "wmax" :> FP)
      [] stdp_rule = "powerlaw" ->
           ("tc_pre" :> 20 * ms @@ "nu" :> FP \div 100 @@ "wmax" :> FP @@
            "tar" :> FP \div 2 @@ "mu" :> 3)
      [] stdp_rule = "exponential" ->
           ("tc_pre" :> 20 * ms @@ "nu" :> FP \div 100 @@ "wmax" :> FP @@
            "tar" :> FP \div 2 @@ "beta" :> 3)
      [] stdp_rule = "symmetric" ->
           ("tc_pre" :> 20 * ms @@ "tc_post" :> 20 * ms @@
            "nu_pre" :> FP \div 10000 @@ "nu_post" :> FP \div 100 @@
            "wmax" :> FP @@ "tar" :> FP \div 2 @@ "mu" :> 3)
      [] OTHER -> << >>

\* Omega_d and Omega_f are rates per second, in fixed point
create_stp_namespace(stp_rule) ==
    CASE stp_rule = "tsodyks" ->
           ("U_0" :> (2 * FP) \div 10 @@ "Omega_d" :> (73 * FP) \div 100 @@
            "Omega_f" :> 5 * FP @@ "wmax_ee" :> FP @@ "lr" :> FP \div 10000)
      [] stp_rule = "markham" ->
           ("taud" :> 10 * ms @@ "tauf" :> 1 * ms @@ "U" :> (6 * FP) \div 10 @@
            "wmax_ee" :> FP @@ "lr" :> FP \div 10000)
      [] stp_rule = "moraitis" ->
           ("tc_pre_ee" :> 20 * ms @@ "tc_post_1_ee" :> 20 * ms @@
            "tc_post_2_ee" :> 40 * ms @@ "nu_ee_pre" :> FP \div 10000 @@
            "nu_ee_post" :> FP \div 100 @@ "wmax_ee" :> FP @@
            "tc_lambda" :> 300 * ms @@ "lr_pre" :> FP \div 10000 @@
            "lr_post" :> FP \div 100)
      [] OTHER -> << >>

\* "nu" in k, for the keys the namespaces hold
HasNu(k) == k \in {"nu_ee_pre", "nu_ee_post", "nu_pair_pre", "nu_triple_pre",
                   "nu_pair_post", "nu_triple_post", "nu", "nu_pre", "nu_post"}

\* dict.update: the entries of d2 replace and extend those of d1
update(d1, d2) == d2 @@ d1

\* __init__: the namespace the synapse group is built with
namespace(stdp_on, stp_on, stdp_rule, stp_rule, custom_namespace, nu_factor) ==
    LET n0 == << >>
        n1 == IF stdp_on THEN update(n0, create_stdp_namespace(stdp_rule)) ELSE n0
        n2 == IF stp_on THEN update(n1, create_stp_namespace(stp_rule)) ELSE n1
        n3 == IF nu_factor # None
                THEN [k \in DOMAIN n2 |->
                        IF HasNu(k) THEN n2[k] * nu_factor ELSE n2[k]]
                ELSE n2
    IN  update(n3, custom_namespace)
(***************************************************************************)
(* The state of one synapse and of its target: the weight w, the target's  *)
(* conductance ge (g{e}_post), and the trace variables of all rules (a     *)
(* rule reads and writes only those its equations declare).                *)
(***************************************************************************)
TraceNames == {"pre", "pre1", "pre2", "post", "post1", "post2", "f", "u", "x"}

\* create_equations: model "w : 1", on_pre "g{}_post += w", on_post ""
base_pre_eqn(s) == [s EXCEPT !.ge = s.ge + s.w]

\* create_stdp_equations: the statements appended to self.pre_eqn
stdp_pre_eqn(stdp_rule, ns, s) ==
    CASE stdp_rule = "original" ->
           LET s1 == [s EXCEPT !.pre = FP]
           IN  [s1 EXCEPT !.w = clip(s1.w + Mul(ns["nu_ee_pre"], s1.post1),
                                     0, ns["wmax_ee"])]
      [] stdp_rule = "minimal-triplet" ->
           LET s1 == [s EXCEPT !.w = clip(s.w - Mul(s.post1, ns["nu_pair_pre"]),
                                          0, ns["wmax"])]
           IN  [s1 EXCEPT !.pre = FP]
      [] stdp_rule = "full-triplet" ->
           LET s1 == [s EXCEPT !.w =
                        clip(s.w - Mul(s.post1, ns["nu_pair_pre"]
                                         + Mul(ns["nu_triple_pre"], s.pre2)),
                             0, ns["wmax"])]
           IN  [s1 EXCEPT !.pre1 = FP, !.pre2 = FP]
      [] stdp_rule \in {"powerlaw", "exponential"} ->
           [s EXCEPT !.pre = s.pre + FP]
      [] stdp_rule = "symmetric" ->
           LET s1 == [s EXCEPT !.w =
                        clip(s.w - Mul(Mul(ns["nu_pre"], s.pre), Pow(s.w, ns["mu"])),
                             0, ns["wmax"])]
           IN  [s1 EXCEPT !.pre = s1.pre + FP]
      [] OTHER -> s

\* create_stdp_equations: the statements appended to self.post_eqn
stdp_post_eqn(stdp_rule, ns, s) ==
    CASE stdp_rule = "original" ->
           LET s1 == [s EXCEPT !.w =
                        clip(s.w + Mul(Mul(ns["nu_ee_post"], s.pre), s.post2),
                             0, ns["wmax_ee"])]
           IN  [s1 EXCEPT !.post1 = FP, !.post2 = FP]
      [] stdp_rule = "minimal-triplet" ->
           LET s1 == [s EXCEPT !.w =
                        clip(s.w + Mul(Mul(s.pre, ns["nu_triple_post"]), s.post2),
                             0, ns["wmax"])]
           IN  [s1 EXCEPT !.post1 = FP, !.post2 = FP]
      [] stdp_rule = "full-triplet" ->
           LET s1 == [s EXCEPT !.w =
                        clip(s.w + Mul(s.pre1, ns["nu_pair_post"]
                                         + Mul(ns["nu_triple_post"], s.post2)),
                             0, ns["wmax"])]
           IN  [s1 EXCEPT !.post1 = FP, !.post2 = FP]
      [] stdp_rule = "powerlaw" ->
           [s EXCEPT !.w =
              clip(s.w + Mul(Mul(ns["nu"], s.pre - ns["tar"]),
                             Pow(ns["wmax"] - s.w, ns["mu"])),
                   0, ns["wmax"])]
      [] stdp_rule = "exponential" ->
           [s EXCEPT !.w =
              clip(s.w + Mul(ns["nu"],
                             Mul(s.pre, exp(0 - ns["beta"] * s.w))
                             - Mul(ns["tar"],
                                   exp(0 - ns["beta"] * (ns["wmax"] - s.w)))),
                   0, ns["wmax"])]
      [] stdp_rule = "symmetric" ->
           LET s1 == [s EXCEPT !.w =
                        clip(s.w + Mul(Mul(ns["nu_post"], s.pre - ns["tar"]),
                                       Pow(ns["wmax"] - s.w, ns["mu"])),
                             0, ns["wmax"])]
           IN  [s1 EXCEPT !.post = s1.post + FP]
      [] OTHER -> s

\* create_stp_equations: the statements appended to self.pre_eqn
stp_pre_eqn(stp_rule, ns, s) ==
    CASE stp_rule = "tsodyks" ->
           LET s1 == [s EXCEPT !.u = s.u + Mul(ns["U_0"], FP - s.u)]
               r  == Mul(s1.u, s1.x)
               s2 == [s1 EXCEPT !.x = s1.x - r]
           IN  [s2 EXCEPT !.w = clip(s2.w + Mul(Mul(s2.w, r), ns["lr"]),
                                     0, ns["wmax_ee"])]
      [] stp_rule = "markham" ->
           LET s1 == [s EXCEPT !.w =
                        clip(s.w + Mul(Mul(Mul(s.u, s.x), s.w), ns["lr"]),
                             0, ns["wmax_ee"])]
               s2 == [s1 EXCEPT !.x = Mul(s1.x, FP - s1.u)]
           IN  [s2 EXCEPT !.u = s2.u + Mul(ns["U"], FP - s2.u)]
      [] stp_rule = "moraitis" ->
           LET s1 == [s EXCEPT !.pre = FP]
               s2 == [s1 EXCEPT !.f = clip(s1.f + Mul(ns["nu_ee_pre"], s1.post1),
                                           0, ns["wmax_ee"])]
           IN  [s2 EXCEPT !.w = clip(s2.w + Mul(s2.f, ns["lr_pre"]),
                                     0, ns["wmax_ee"])]
      [] OTHER -> s

\* create_stp_equations: the statements appended to self.post_eqn
stp_post_eqn(stp_rule, ns, s) ==
    CASE stp_rule = "moraitis" ->
           LET s1 == [s EXCEPT !.f =
                        clip(s.f + Mul(Mul(ns["nu_ee_post"], s.pre), s.post2),
                             0, ns["wmax_ee"])]
               s2 == [s1 EXCEPT !.w = clip(s1.w + Mul(s1.f, ns["lr_post"]),
                                           0, ns["wmax_ee"])]
           IN  [s2 EXCEPT !.post1 = FP, !.post2 = FP]
      [] OTHER -> s

\* on_pre=self.pre_eqn, as __init__ has assembled it
pre_eqn(c, ns, s) ==
    LET s0 == base_pre_eqn(s)
        s1 == IF c.stdp_on THEN stdp_pre_eqn(c.stdp_rule, ns, s0) ELSE s0
    IN  IF c.stp_on THEN stp_pre_eqn(c.stp_rule, ns, s1) ELSE s1

\* on_post=self.post_eqn, as __init__ has assembled it
post_eqn(c, ns, s) ==
    LET s1 == IF c.stdp_on THEN stdp_post_eqn(c.stdp_rule, ns, s) ELSE s
    IN  IF c.stp_on THEN stp_post_eqn(c.stp_rule, ns, s1) ELSE s1
\* a trace declared "dv/dt = -v / tc (event-driven)", dt after its last update
ExpDecay(v, dt, tc) == Mul(v, exp(0 - (dt * FP) \div tc))
\* a variable relaxing to the level a with rate 1/tc: dv/dt = (a - v) / tc
Relax(v, a, dt, tc) == a - ExpDecay(a - v, dt, tc)

\* create_stdp_equations: the equations added to self.model, integrated over dt
stdp_model(stdp_rule, ns, s, dt) ==
    CASE stdp_rule = "original" ->
           [s EXCEPT !.pre = ExpDecay(s.pre, dt, ns["tc_pre_ee"]),
                     !.post1 = ExpDecay(s.post1, dt, ns["tc_post_1_ee"]),
                     !.post2 = ExpDecay(s.post2, dt, ns["tc_post_2_ee"])]
      [] stdp_rule = "minimal-triplet" ->
           [s EXCEPT !.pre = ExpDecay(s.pre, dt, ns["tc_pre"]),
                     !.post1 = ExpDecay(s.post1, dt, ns["tc_post1"]),
                     !.post2 = ExpDecay(s.post2, dt, ns["tc_post2"])]
      [] stdp_rule = "full-triplet" ->
           [s EXCEPT !.pre1 = ExpDecay(s.pre1, dt, ns["tc_pre1"]),
                     !.pre2 = ExpDecay(s.pre2, dt, ns["tc_pre2"]),
                     !.post1 = ExpDecay(s.post1, dt, ns["tc_post1"]),
                     !.post2 = ExpDecay(s.post2, dt, ns["tc_post2"])]
      [] stdp_rule \in {"powerlaw", "exponential"} ->
           [s EXCEPT !.pre = ExpDecay(s.pre, dt, ns["tc_pre"])]
      [] stdp_rule = "symmetric" ->
           [s EXCEPT !.pre = ExpDecay(s.pre, dt, ns["tc_pre"]),
                     !.post = ExpDecay(s.post, dt, ns["tc_post"])]
      [] OTHER -> s

\* create_stp_equations: the equations added to self.model, integrated over dt
stp_model(stp_rule, ns, s, dt) ==
    CASE stp_rule = "tsodyks" ->
           [s EXCEPT !.u = Mul(s.u, exp(0 - (ns["Omega_f"] * dt) \div second)),
                     !.x = FP - Mul(FP - s.x,
                                    exp(0 - (ns["Omega_d"] * dt) \div second))]
      [] stp_rule = "markham" ->
           [s EXCEPT !.x = Relax(s.x, FP, dt, ns["taud"]),
                     !.u = Relax(s.u, ns["U"], dt, ns["tauf"])]
      [] stp_rule = "moraitis" ->
           [s EXCEPT !.pre = ExpDecay(s.pre, dt, ns["tc_pre_ee"]),
                     !.post1 = ExpDecay(s.post1, dt, ns["tc_post_1_ee"]),
                     !.post2 = ExpDecay(s.post2, dt, ns["tc_post_2_ee"]),
                     !.f = ExpDecay(s.f, dt, ns["tc_lambda"])]
      [] OTHER -> s

\* self.model, as __init__ has assembled it, integrated over dt
model(c, ns, s, dt) ==
    LET s1 == IF c.stdp_on THEN stdp_model(c.stdp_rule, ns, s, dt) ELSE s
    IN  IF c.stp_on THEN stp_model(c.stp_rule, ns, s1, dt) ELSE s1

\* the variables the equations of a rule declare
stdp_variables(stdp_rule) ==
    CASE stdp_rule \in {"original", "minimal-triplet"} -> {"pre", "post1", "post2"}
      [] stdp_rule = "full-triplet" -> {"pre1", "pre2", "post1", "post2"}
      [] stdp_rule \in {"powerlaw", "exponential"} -> {"pre"}
      [] stdp_rule = "symmetric" -> {"pre", "post"}
      [] OTHER -> {}
stp_variables(stp_rule) ==
    CASE stp_rule \in {"tsodyks", "markham"} -> {"u", "x"}
      [] stp_rule = "moraitis" -> {"pre", "post1", "post2", "f"}
      [] OTHER -> {}
model_variables(c) ==
    (IF c.stdp_on THEN stdp_variables(c.stdp_rule) ELSE {})
    \cup (IF c.stp_on THEN stp_variables(c.stp_rule) ELSE {})

\* whether the handler of event ev ("pre", "post") assigns w, and the upper
\* bound its last assignment clips to
stdp_writes_w(stdp_rule, ev) ==
    IF ev = "pre"
      THEN stdp_rule \in {"original", "minimal-triplet", "full-triplet", "symmetric"}
      ELSE stdp_rule \in STDP_RULES
stp_writes_w(stp_rule, ev) ==
    IF ev = "pre" THEN stp_rule \in STP_RULES ELSE stp_rule = "moraitis"
writes_w(c, ev) ==
    \/ c.stdp_on /\ stdp_writes_w(c.stdp_rule, ev)
    \/ c.stp_on /\ stp_writes_w(c.stp_rule, ev)
wmax_of(c, ns, ev) ==
    IF (c.stp_on /\ stp_writes_w(c.stp_rule, ev)) \/ c.stdp_rule = "original"
      THEN ns["wmax_ee"] ELSE ns["wmax"]

(***************************************************************************)
(* Diehl&Cook_spiking_MNIST_Brian2.py: the functions.  An array of length  *)
(* n is a function on 0 .. n-1, a matrix is an array of rows.  A mean of   *)
(* spike counts is kept exactly, as <<sum, count>>; <<0, 0>> is the NaN    *)
(* numpy returns for the mean of an empty slice.                           *)
(***************************************************************************)
\* config.num_classes = len(np.unique(training['y'])): 10 for MNIST, 3 here
num_classes == 3
\* n_e = 400 in the program, 2 here
n_e == 2
\* n_input = 784 in the program, 2 here
n_input == 2
\* wmax_ee = 1.0
wmax_ee == FP
\* weight['ee_input'] = 78. over 784 inputs; scaled to n_input so that, as in
\* the program, wmax_ee < weight['ee_input'] < n_input * wmax_ee
weight == [ee_input |-> (3 * FP) \div 2]

Indices(n) == 0 .. (n - 1)

RECURSIVE sum_to(_, _)
\* a[0] + ... + a[n-1]
sum_to(a, n) == IF n = 0 THEN 0 ELSE FAdd(sum_to(a, n - 1), a[n - 1])
np_sum(a) == sum_to(a, Cardinality(DOMAIN a))

\* connweights.sum(axis=0)
sum_axis0(m) == [j \in DOMAIN m[0] |-> np_sum([i \in DOMAIN m |-> m[i][j]])]

\* normalize_weights, lines 85-93: one connection's weights (connweights is
\* the dense matrix of conn.w)
normalize_connection_undivided(connweights, target) ==
    [i \in DOMAIN connweights |->
        [j \in DOMAIN connweights[i] |-> FMul(connweights[i][j], target)]]
normalize_connection(connweights, target) ==
    LET colSums == sum_axis0(connweights)
        colFactors == [j \in DOMAIN colSums |-> FDiv(target, colSums[j])]
    IN  [i \in DOMAIN connweights |->
            [j \in DOMAIN connweights[i] |-> FMul(connweights[i][j], colFactors[j])]]

\* connName[1] == 'e' and connName[3] == 'e', for the names main creates
is_ee(connName) == connName \in {"XeAe"}

normalize_weights(connections, wt) ==
    [connName \in DOMAIN connections |->
        IF is_ee(connName)
          THEN normalize_connection(connections[connName], wt.ee_input)
          ELSE connections[connName]]

\* p < q for two means
rat_less(p, q) == p[2] # 0 /\ q[2] # 0 /\ p[1] * q[2] < q[1] * p[2]
rat_zero == <<0, 1>>

\* x[mask].mean()
masked_mean(x, mask) ==
    <<np_sum([k \in DOMAIN x |-> IF mask[k] THEN x[k] ELSE 0]),
      Cardinality({k \in DOMAIN x : mask[k]})>>

RECURSIVE argsort_to(_, _)
\* the indices 0 .. n-1 in ascending order of key, equal keys in index order
\* (numpy sorts an array this short by insertion), as a sequence
argsort_to(key, n) ==
    IF n = 0 THEN << >>
    ELSE LET s == argsort_to(key, n - 1)
             p == Cardinality({k \in 1 .. Len(s) : ~rat_less(key[n - 1], key[s[k]])})
         IN  SubSeq(s, 1, p) \o <<n - 1>> \o SubSeq(s, p + 1, Len(s))
np_argsort(key) == argsort_to(key, Cardinality(DOMAIN key))

\* s[::-1], as an array
not_reversed(s) == [k \in Indices(Len(s)) |-> s[k + 1]]
reversed(s) == [k \in Indices(Len(s)) |-> s[Len(s) - k]]

\* get_predicted_class_ranking, lines 164-168
mean_rates_unguarded(assignments, spike_rates) ==
    [i \in Indices(num_classes) |->
        masked_mean(spike_rates, [k \in DOMAIN assignments |-> assignments[k] = i])]
mean_rates(assignments, spike_rates) ==
    [i \in Indices(num_classes) |->
        LET num_assignments == Cardinality({k \in DOMAIN assignments : assignments[k] = i})
        IN  IF num_assignments > 0
              THEN masked_mean(spike_rates,
                               [k \in DOMAIN assignments |-> assignments[k] = i])
              ELSE rat_zero]

get_predicted_class_ranking(assignments, spike_rates) ==
    reversed(np_argsort(mean_rates(assignments, spike_rates)))

\* a Python value that is an int, and the result of a call that raises
PyInt(n) == [type |-> "int", v |-> n]
Raise(e) == [err |-> e]
Return(v) == [err |-> "", val |-> v]

\* np.zeros(shape, dtype): the second positional argument is the dtype, and
\* an int is none
np_zeros(shape, dtype) ==
    IF dtype.type = "dtype"
      THEN Return([k \in Indices(shape) |-> 0])
      ELSE Raise("TypeError")

\* the first index of a maximal entry of a row of means
argmax(row) ==
    CHOOSE k \in DOMAIN row :
        /\ \A l \in DOMAIN row : ~rat_less(row[k], row[l])
        /\ \A l \in DOMAIN row : l < k => rat_less(row[l], row[k])

\* get_new_assignments, lines 173-183
get_new_assignments(result_monitor, input_labels) ==
    LET ne == Cardinality(DOMAIN result_monitor[0])
        zeros == np_zeros(num_classes, PyInt(ne))
        rates == [j \in Indices(num_classes) |->
                    LET num_labels == Cardinality({r \in DOMAIN input_labels :
                                                     input_labels[r] = j})
                    IN  IF num_labels > 0
                          THEN [n \in Indices(ne) |->
                                  masked_mean([r \in DOMAIN result_monitor |->
                                                 result_monitor[r][n]],
                                              [r \in DOMAIN input_labels |->
                                                 input_labels[r] = j])]
                          ELSE [n \in Indices(ne) |-> rat_zero]]
    IN  IF zeros.err # "" THEN zeros
        ELSE Return([j \in Indices(num_classes) |-> argmax(rates[j])])

\* the value of the variables a specification does not use
SynIdle == [last |-> "idle"]
FnIdle == [op |-> "idle"]
EnvIdle == [mode |-> "idle"]
NetIdle == [mode |-> "idle"]
RunIdle == [pc |-> "idle"]
NrnIdle == [mode |-> "idle"]
WinIdle == [pc |-> "idle"]

(***************************************************************************)
(* SpecSyn: one synapse of a DiehlAndCookSynapses group.  Init draws the   *)
(* constructor's arguments, the weight and the declared traces; the        *)
(* actions are a pre-synaptic spike, a post-synaptic spike and the passing *)
(* of SynDT between events.                                                *)
(***************************************************************************)
MaxSynEvents == 2
SynDT == 10 * ms
WeightSamples == {0 - FP \div 2, 0, (3 * FP) \div 10, FP, (3 * FP) \div 2}
TraceSamples == {0, (6 * FP) \div 10}
NuFactors == {None, 2}

\* the arguments of __init__; a group that declares a variable twice (an STDP
\* rule together with the moraitis STP rule) is rejected by Brian2
\* custom_namespace=None, or a dict that overrides learning rates
CustomNamespaces == {<< >>, ("nu_ee_post" :> (3 * FP) \div 100 @@
                            "nu_triple_post" :> (3 * FP) \div 100)}

SynConfigs ==
    {c \in [stdp_on : BOOLEAN, stp_on : BOOLEAN, stdp_rule : STDP_RULES,
            stp_rule : STP_RULES, nu_factor : NuFactors,
            custom_namespace : CustomNamespaces] :
       /\ ~c.stdp_on => c.stdp_rule = "original"
       /\ ~c.stp_on => c.stp_rule = "markham"
       /\ (c.stdp_on /\ c.stp_on) =>
            stdp_variables(c.stdp_rule) \cap stp_variables(c.stp_rule) = {}}

TraceInit(c, v) == IF v \in model_variables(c) THEN TraceSamples ELSE {0}

SynStates(c) ==
    [w : WeightSamples, ge : {0}, pre : TraceInit(c, "pre"),
     pre1 : TraceInit(c, "pre1"), pre2 : TraceInit(c, "pre2"),
     post : TraceInit(c, "post"), post1 : TraceInit(c, "post1"),
     post2 : TraceInit(c, "post2"), f : TraceInit(c, "f"),
     u : TraceInit(c, "u"), x : TraceInit(c, "x")]

SynInit ==
    \E c \in SynConfigs : \E s \in SynStates(c) :
        syn = [c |-> c,
               ns |-> namespace(c.stdp_on, c.stp_on, c.stdp_rule, c.stp_rule,
                                c.custom_namespace, c.nu_factor),
               s |-> s, w_before |-> s.w, last |-> "init", n |-> 0]

SynPre ==
    /\ syn.n < MaxSynEvents
    /\ syn' = [syn EXCEPT !.s = pre_eqn(syn.c, syn.ns, syn.s),
                          !.w_before = syn.s.w, !.last = "pre", !.n = syn.n + 1]

SynPost ==
    /\ syn.n < MaxSynEvents
    /\ syn' = [syn EXCEPT !.s = post_eqn(syn.c, syn.ns, syn.s),
                          !.w_before = syn.s.w, !.last = "post", !.n = syn.n + 1]

SynElapse ==
    /\ syn.n < MaxSynEvents
    /\ syn.last # "elapse"
    /\ syn' = [syn EXCEPT !.s = model(syn.c, syn.ns, syn.s, SynDT),
                          !.w_before = syn.s.w, !.last = "elapse"]

SynNext ==
    \/ SynPre /\ UNCHANGED <<fn, env, net, run, nrn, win>>
    \/ SynPost /\ UNCHANGED <<fn, env, net, run, nrn, win>>
    \/ SynElapse /\ UNCHANGED <<fn, env, net, run, nrn, win>>

SynStart ==
    /\ SynInit
    /\ fn = FnIdle /\ env = EnvIdle /\ net = NetIdle /\ run = RunIdle /\ nrn = NrnIdle
    /\ win = WinIdle

SpecSyn == SynStart /\ [][SynNext]_vars

\* C1: after every pre-spike or post-spike handler that assigns the weight,
\* for every rule family and whatever the weight and the traces were before
\* the event, the weight lies in [0, wmax].
C1_WeightWithinBounds ==
    (syn.last \in {"pre", "post"} /\ writes_w(syn.c, syn.last)) =>
        (0 <= syn.s.w /\ syn.s.w <= wmax_of(syn.c, syn.ns, syn.last))

\* a handler has brought a weight from outside [0, wmax] back to a bound
C1_Witness ==
    /\ syn.last \in {"pre", "post"}
    /\ writes_w(syn.c, syn.last)
    /\ \/ syn.w_before > FP /\ syn.s.w = FP
       \/ syn.w_before < 0 /\ syn.s.w = 0
(***************************************************************************)
(* SpecFn: the functions on inputs drawn from bounded sets.  Init draws a  *)
(* call (the function and its arguments), the action makes it.             *)
(***************************************************************************)
FnNeurons == 3
FnRecords == 3
FnSources == 2
RateSamples == {0, 1, 5}
\* the spike counts of one record: no spike, or 5 spikes of one neuron
RateVectors ==
    {[n \in Indices(FnNeurons) |-> IF n = k THEN 5 ELSE 0] : k \in 0 .. FnNeurons}
NormSamples == {0, (3 * FP) \div 10, FP}
\* num_examples and config.update_interval of a call of
\* get_current_performance, and the rows of predicted_class_ranking that
\* get_predicted_class_ranking may have written
PerfExamples == 4
PerfInterval == 2
RankingSamples ==
    {r \in [Indices(num_classes) -> Indices(num_classes)] :
        /\ \A a, b \in Indices(num_classes) : a # b => r[a] # r[b]
        /\ r[0] = 0 \/ r[1] = 0}

\* x[-n:] of a list with indices 0 .. len-1: the indices of the slice
last_indices(len, n) == {k \in Indices(len) : k >= len - n}

\* get_current_performance, lines 134-138, with config.update_interval as third
\* argument: 100 * correct.mean()
get_current_performance(pred_ranking, labels, update_interval_) ==
    LET rows == last_indices(Cardinality(DOMAIN pred_ranking), update_interval_)
        correct == {k \in rows : pred_ranking[k][0] = labels[k]}
    IN  (100 * Cardinality(correct)) \div Cardinality(rows)

FnInit ==
    \/ \E a \in [Indices(FnNeurons) -> Indices(num_classes)] :
       \E x \in [Indices(FnNeurons) -> RateSamples] :
          fn = [op |-> "rank", assignments |-> a, spike_rates |-> x, done |-> FALSE]
    \/ \E m \in [Indices(FnRecords) -> RateVectors] :
       \E l \in [Indices(FnRecords) -> Indices(num_classes)] :
          fn = [op |-> "assign", result_monitor |-> m, input_labels |-> l,
                done |-> FALSE]
    \/ \E m \in [Indices(FnSources) -> [Indices(FnSources) -> NormSamples]] :
          fn = [op |-> "normalize", connweights |-> m, done |-> FALSE]
    \* lines 424-425 and 470-483: the call at index j, a multiple of the interval,
    \* after the rows 0 .. j have been written
    \/ \E j \in {i \in 1 .. PerfExamples - 1 : i % PerfInterval = 0} :
       \E p \in [0 .. j -> RankingSamples] :
       \E l \in [0 .. j -> Indices(num_classes)] :
          fn = [op |-> "performance", j |-> j,
                predicted_class_ranking |->
                    [k \in Indices(PerfExamples) |->
                        IF k <= j THEN p[k] ELSE [c \in Indices(num_classes) |-> 0]],
                input_labels |->
                    [k \in Indices(PerfExamples) |-> IF k <= j THEN l[k] ELSE 0],
                done |-> FALSE]

FnRank ==
    /\ fn.op = "rank" /\ ~fn.done
    /\ fn' = [op |-> "rank", assignments |-> fn.assignments,
              spike_rates |-> fn.spike_rates, done |-> TRUE,
              mean_rates |-> mean_rates(fn.assignments, fn.spike_rates),
              ranking |-> get_predicted_class_ranking(fn.assignments, fn.spike_rates)]

FnAssign ==
    /\ fn.op = "assign" /\ ~fn.done
    /\ fn' = [op |-> "assign", result_monitor |-> fn.result_monitor,
              input_labels |-> fn.input_labels, done |-> TRUE,
              out |-> get_new_assignments(fn.result_monitor, fn.input_labels)]

FnNormalize ==
    /\ fn.op = "normalize" /\ ~fn.done
    /\ fn' = [op |-> "normalize", connweights |-> fn.connweights, done |-> TRUE,
              out |-> normalize_weights([XeAe |-> fn.connweights], weight).XeAe]

FnPerformance ==
    /\ fn.op = "performance" /\ ~fn.done
    /\ fn' = [fn EXCEPT !.done = TRUE] @@
             [out |-> get_current_performance(fn.predicted_class_ranking,
                                              fn.input_labels, PerfInterval)]

FnNext ==
    \/ FnPerformance /\ UNCHANGED <<syn, env, net, run, nrn, win>>
    \/ FnRank /\ UNCHANGED <<syn, env, net, run, nrn, win>>
    \/ FnAssign /\ UNCHANGED <<syn, env, net, run, nrn, win>>
    \/ FnNormalize /\ UNCHANGED <<syn, env, net, run, nrn, win>>

FnStart ==
    /\ FnInit
    /\ syn = SynIdle /\ env = EnvIdle /\ net = NetIdle /\ run = RunIdle /\ nrn = NrnIdle
    /\ win = WinIdle

SpecFn == FnStart /\ [][FnNext]_vars

Abs(a) == IF a < 0 THEN 0 - a ELSE a
RECURSIVE SetSum(_, _)
\* the sum of x[k] over the k of S
SetSum(x, S) ==
    IF S = {} THEN 0 ELSE LET k == CHOOSE k \in S : TRUE IN x[k] + SetSum(x, S \ {k})

\* the rounding of the fixed-point quotient and products of one column of
\* sum S with n entries
NormTol(S, n) == n + S \div FP + 1
ColumnOf(m, j) == [i \in DOMAIN m |-> m[i][j]]
ColumnNormalized(before, after, j) ==
    LET b == ColumnOf(before, j)
        a == ColumnOf(after, j)
        S == SetSum(b, DOMAIN b)
    IN  /\ \A i \in DOMAIN a : IsFinite(a[i])
        /\ Abs(SetSum(a, DOMAIN a) - weight.ee_input) <= NormTol(S, Cardinality(DOMAIN b))
        /\ \A i1, i2 \in DOMAIN a :
              Abs(a[i1] * b[i2] - a[i2] * b[i1]) <= Max(b[i1], b[i2])

ClassMean(assignments, spike_rates, i) ==
    LET S == {k \in DOMAIN assignments : assignments[k] = i}
    IN  IF S = {} THEN <<0, 1>> ELSE <<SetSum(spike_rates, S), Cardinality(S)>>

\* C6: get_predicted_class_ranking returns a permutation of the class
\* indices 0 .. num_classes-1 along which the per-class mean rate never
\* increases.
C6_RankingSortedPermutation ==
    (fn.op = "rank" /\ fn.done) =>
        /\ DOMAIN fn.ranking = Indices(num_classes)
        /\ Range(fn.ranking) = Indices(num_classes)
        /\ \A r \in 0 .. (num_classes - 2) :
              ~rat_less(ClassMean(fn.assignments, fn.spike_rates, fn.ranking[r]),
                        ClassMean(fn.assignments, fn.spike_rates, fn.ranking[r + 1]))

\* three classes of three different mean rates, the last class ranked first
C6_Witness ==
    /\ fn.op = "rank" /\ fn.done
    /\ fn.ranking[0] = num_classes - 1
    /\ \A r \in 0 .. (num_classes - 2) :
          rat_less(ClassMean(fn.assignments, fn.spike_rates, fn.ranking[r + 1]),
                   ClassMean(fn.assignments, fn.spike_rates, fn.ranking[r]))

\* the class of the highest mean spike count of neuron n over the records of
\* each label, the lowest class index winning ties
BestClass(result_monitor, input_labels, n) ==
    LET mean(j) == LET R == {r \in DOMAIN input_labels : input_labels[r] = j}
                   IN  IF R = {} THEN <<0, 1>>
                       ELSE <<SetSum([r \in DOMAIN result_monitor |->
                                        result_monitor[r][n]], R), Cardinality(R)>>
    IN  CHOOSE j \in Indices(num_classes) :
            /\ \A l \in Indices(num_classes) : ~rat_less(mean(j), mean(l))
            /\ \A l \in Indices(num_classes) : l < j => rat_less(mean(l), mean(j))

\* C7: get_new_assignments returns one class per excitatory neuron: the
\* class whose records have the highest mean spike count for the neuron, the
\* lowest class index winning ties.
C7_AssignmentPerNeuron ==
    (fn.op = "assign" /\ fn.done) =>
        /\ fn.out.err = ""
        /\ DOMAIN fn.out.val = Indices(FnNeurons)
        /\ \A n \in Indices(FnNeurons) :
              fn.out.val[n] = BestClass(fn.result_monitor, fn.input_labels, n)

\* C8: a class no neuron is assigned to has the mean rate 0 in
\* get_predicted_class_ranking and is in the ranking it returns, which has
\* one rank per class whatever the assignment.
C8_EmptyClassRanked ==
    (fn.op = "rank" /\ fn.done) =>
        /\ DOMAIN fn.ranking = Indices(num_classes)
        /\ \A i \in Indices(num_classes) :
              (\A k \in DOMAIN fn.assignments : fn.assignments[k] # i) =>
                  /\ fn.mean_rates[i][1] = 0 /\ fn.mean_rates[i][2] > 0
                  /\ \E r \in DOMAIN fn.ranking : fn.ranking[r] = i

\* all neurons are assigned to class 1, and the classes 0 and 2 are ranked
C8_Witness ==
    /\ fn.op = "rank" /\ fn.done
    /\ \A k \in DOMAIN fn.assignments : fn.assignments[k] = 1
    /\ \E k \in DOMAIN fn.spike_rates : fn.spike_rates[k] > 0
    /\ fn.ranking[0] = 1
    /\ {fn.ranking[1], fn.ranking[2]} = {0, 2}

(***************************************************************************)
(* Diehl&Cook_spiking_MNIST_Brian2.py: main.  env is what main is given    *)
(* (the mode and the data set it reads), net the Brian2 network, run the   *)
(* local variables of main.  Voltages are in nanovolts, rates in eighths   *)
(* of a hertz.  Plotting, logging and the content of the saved files are   *)
(* external to the program and are not modelled; the inhibitory population *)
(* and the membrane potential are abstracted: a neuron may fire whenever   *)
(* it has excitatory conductance or its threshold is below rest.           *)
(***************************************************************************)
\* lines 199-235, with update_interval = 10000 scaled to IntervalCap: test mode
\* runs IntervalCap examples, train mode a multiple of it
IntervalCap == 1
num_examples(test_mode) == IF test_mode THEN IntervalCap ELSE 2 * IntervalCap
update_interval(test_mode) ==
    IF num_examples(test_mode) <= IntervalCap
      THEN num_examples(test_mode) ELSE IntervalCap
save_connections_interval == IntervalCap
\* the length of testing['x'] and of training['x'] (j % 10000, j % 60000)
data_len == IntervalCap

v_rest_e == 0 - 65 * mV
v_thresh_e == 0 - 52 * mV
offset == 20 * mV
theta_plus_e == mV \div 20
tc_theta == 10000000 * ms
start_input_intensity == 2
tc_pre_ee == 20 * ms
tc_post_1_ee == 20 * ms
tc_post_2_ee == 40 * ms
nu_ee_pre == FP \div 10000
nu_ee_post == FP \div 100

\* bounds of the model: the events of the network in one behaviour, the input
\* intensity at which the model stops counting, and the time between two
\* events
MaxEvents == 5
MaxIntensity == 3
RunDT == 10 * ms

zeros(n) == [k \in Indices(n) |-> 0]

\* scr_e, lines 270-275: what the reset of an excitatory neuron does to theta
scr_e_adapting(test_mode, theta) == theta + theta_plus_e
scr_e(test_mode, theta) == IF test_mode THEN theta ELSE theta + theta_plus_e

\* v_thresh_e_str, line 277, for a neuron at rest: the threshold is below the
\* resting potential
below_rest(theta) == v_rest_e > theta - offset + v_thresh_e

\* an excitatory neuron that can reach its threshold
can_fire(n) ==
    \/ net.ge[n] > 0 /\ net.ge[n] # Inf
    \/ below_rest(net.theta[n])

\* on_pre of XeAe, lines 403-409: 'ge_post += w' and, with ee_STDP_on,
\* eqs_stdp_pre_ee
XeAe_on_pre(ee_STDP_on, s, w) ==
    IF ee_STDP_on
      THEN [s |-> [s EXCEPT !.pre = FP],
            w |-> clip(FAdd(w, FMul(nu_ee_pre, s.post1)), 0, wmax_ee)]
      ELSE [s |-> s, w |-> w]

\* on_post of XeAe: eqs_stdp_post_ee with ee_STDP_on, nothing without
XeAe_on_post(ee_STDP_on, s, w) ==
    IF ee_STDP_on
      THEN [s |-> [s EXCEPT !.post2before = s.post2, !.post1 = FP, !.post2 = FP],
            w |-> clip(FAdd(w, FMul(nu_ee_post, FMul(s.pre, s.post2))), 0, wmax_ee)]
      ELSE [s |-> s, w |-> w]

\* eqs_stdp_ee, lines 301-306, integrated over dt
XeAe_model(s, dt) ==
    [s EXCEPT !.pre = ExpDecay(s.pre, dt, tc_pre_ee),
              !.post1 = ExpDecay(s.post1, dt, tc_post_1_ee),
              !.post2 = ExpDecay(s.post2, dt, tc_post_2_ee)]

\* neuron_eqs_e, lines 280-292, integrated over dt: dge/dt = -ge/(1.0*ms);
\* theta is a parameter in test mode and decays with tc_theta in train mode
ge_after(ge, dt) == IF IsFinite(ge) THEN ExpDecay(ge, dt, ms) ELSE ge
theta_after_rising(test_mode, theta, dt) ==
    IF test_mode THEN theta ELSE theta + theta \div (tc_theta \div dt)
theta_after(test_mode, theta, dt) ==
    IF test_mode THEN theta ELSE theta - theta \div (tc_theta \div dt)

\* the network after dt without a spike
net_after(test_mode, nw, dt) ==
    [nw EXCEPT !.ge = [n \in Indices(n_e) |-> ge_after(nw.ge[n], dt)],
               !.theta = [n \in Indices(n_e) |-> theta_after(test_mode, nw.theta[n], dt)],
               !.stdp = [i \in Indices(n_input) |-> [n \in Indices(n_e) |->
                            IF test_mode THEN nw.stdp[i][n]
                            ELSE XeAe_model(nw.stdp[i][n], dt)]]]

\* the images and labels of the data set, and the arrays main loads from
\* weight_path: XeAe.npy (weights in [0, wmax_ee]) and, in test mode, theta_A.npy
Images ==
    {[i \in Indices(n_input) |-> 0],
     [i \in Indices(n_input) |-> IF i = 0 THEN 255 ELSE 0]}
Labels == {0, 1}
DataSets == [x : [Indices(data_len) -> Images], y : [Indices(data_len) -> Labels]]
XeAeFiles ==
    {[i \in Indices(n_input) |-> [n \in Indices(n_e) |-> (3 * FP) \div 10]],
     [i \in Indices(n_input) |-> [n \in Indices(n_e) |->
         IF n = 0 THEN (IF i = 0 THEN FP ELSE FP \div 5) ELSE FP \div 2]],
     [i \in Indices(n_input) |-> [n \in Indices(n_e) |->
         IF n = 0 THEN (IF i = 0 THEN FP ELSE FP \div 5) ELSE 0]]}
ThetaFiles == {[n \in Indices(n_e) |-> 20 * mV], [n \in Indices(n_e) |-> 5 * mV]}
AeAi == [i \in Indices(n_e) |-> [n \in Indices(n_e) |-> IF i = n THEN 10 * FP ELSE 0]]
AiAe == [i \in Indices(n_e) |-> [n \in Indices(n_e) |-> IF i = n THEN 0 ELSE 17 * FP]]

\* the .npy files main loads before the loop: theta_A (line 338, with
\* weight_path 'weights/' only), AeAi and AiAe (line 347), XeAe (line 390)
required_files(test_mode) ==
    IF test_mode THEN {"theta_A", "AeAi", "AiAe", "XeAe"} ELSE {"AeAi", "AiAe", "XeAe"}

\* Besides the variables of main, run records what has happened: events (the
\* events of the network so far), normalized and norm_calls (normalize_weights
\* was called; its calls for the current j, counted up to MaxCalls),
\* presentation_spikes (the spikes of each neuron during the current
\* presentation run), interval_spikes (the spikes of each neuron since the
\* last evaluation), written (the rows of result_monitor written so far, as
\* <<row, j>>), last_intensity (the intensity at the last advance), saved (the
\* files written) and error (the exception main ended with).
MaxCalls == MaxIntensity - start_input_intensity + 1

\* the start of main: the mode, the data set, the required files that np.load
\* cannot read (env.unloadable) and the content of the others, shown as the
\* network main builds from them
LoopInit ==
    /\ \E test_mode \in BOOLEAN : \E data \in DataSets :
       \E unloadable \in SUBSET required_files(test_mode) :
           env = [test_mode |-> test_mode, data |-> data, unloadable |-> unloadable]
    /\ \E XeAe \in XeAeFiles :
       \E theta \in IF env.test_mode THEN ThetaFiles
                    ELSE {[n \in Indices(n_e) |-> 20 * mV]} :
           net = [rates |-> zeros(n_input),
                  connections |-> [XeAe |-> XeAe, AeAi |-> AeAi, AiAe |-> AiAe],
                  stdp |-> [i \in Indices(n_input) |-> [n \in Indices(n_e) |->
                              [pre |-> 0, post1 |-> 0, post2 |-> 0, post2before |-> 0]]],
                  ge |-> zeros(n_e),
                  theta |-> theta,
                  count |-> zeros(n_e)]
    /\ run = [pc |-> "setup",
              j |-> 0,
              input_intensity |-> start_input_intensity,
              previous_spike_count |-> zeros(n_e),
              current_spike_count |-> zeros(n_e),
              result_monitor |-> [r \in Indices(update_interval(env.test_mode)) |-> zeros(n_e)],
              input_labels |-> zeros(num_examples(env.test_mode)),
              assignments |-> zeros(n_e),
              predicted_class_ranking |->
                  [r \in Indices(num_examples(env.test_mode)) |-> zeros(num_classes)],
              events |-> 0,
              normalized |-> FALSE,
              norm_calls |-> 0,
              presentation_spikes |-> zeros(n_e),
              interval_spikes |-> zeros(n_e),
              written |-> << >>,
              last_intensity |-> 0,
              saved |-> {},
              error |-> ""]

\* main up to the loop, lines 186-435: np.load raises on a file it cannot
\* read and main ends with the exception
Setup_degraded ==
    /\ run.pc = "setup"
    /\ run' = [run EXCEPT !.pc = "loop"]
    /\ UNCHANGED <<env, net>>
Setup ==
    /\ run.pc = "setup"
    /\ run' = IF env.unloadable # {}
                THEN [run EXCEPT !.pc = "raised", !.error = "OSError"]
                ELSE [run EXCEPT !.pc = "loop"]
    /\ UNCHANGED <<env, net>>

\* lines 436-450: the head of the loop, up to the start of net.run
Present_normalizing_once ==
    /\ run.pc = "loop"
    /\ run.j < num_examples(env.test_mode)
    /\ LET spike_rates == [i \in Indices(n_input) |->
                             env.data.x[run.j % data_len][i] * run.input_intensity]
           due == ~env.test_mode /\ run.norm_calls = 0
       IN  /\ net' = [net EXCEPT
                        !.connections = IF due THEN normalize_weights(@, weight) ELSE @,
                        !.rates = spike_rates]
           /\ run' = [run EXCEPT !.pc = "present",
                                 !.presentation_spikes = zeros(n_e),
                                 !.normalized = IF due THEN TRUE ELSE @,
                                 !.norm_calls = IF due THEN 1 ELSE @]
    /\ UNCHANGED env
Present ==
    /\ run.pc = "loop"
    /\ run.j < num_examples(env.test_mode)
    /\ LET spike_rates == [i \in Indices(n_input) |->
                             env.data.x[run.j % data_len][i] * run.input_intensity]
       IN  net' = [net EXCEPT
                     !.connections = IF env.test_mode THEN @
                                     ELSE normalize_weights(@, weight),
                     !.rates = spike_rates]
    /\ run' = [run EXCEPT !.pc = "present",
                          !.presentation_spikes = zeros(n_e),
                          !.normalized = IF env.test_mode THEN @ ELSE TRUE,
                          !.norm_calls = IF env.test_mode THEN @
                                         ELSE Min(@ + 1, MaxCalls)]
    /\ UNCHANGED env

\* during net.run
running == run.pc \in {"present", "rest_retry", "rest_advance"}

\* a spike of input i during net.run: on_pre of its synapses
PreSpike(i) ==
    /\ running
    /\ run.events < MaxEvents
    /\ net.rates[i] > 0
    /\ LET ee_STDP_on == ~env.test_mode
           XeAe == net.connections.XeAe
           on_pre == [n \in Indices(n_e) |->
                        XeAe_on_pre(ee_STDP_on, net.stdp[i][n], XeAe[i][n])]
       IN  net' = [net EXCEPT
                     !.ge = [n \in Indices(n_e) |-> FAdd(@[n], XeAe[i][n])],
                     !.stdp[i] = [n \in Indices(n_e) |-> on_pre[n].s],
                     !.connections.XeAe[i] = [n \in Indices(n_e) |-> on_pre[n].w]]
    /\ run' = [run EXCEPT !.events = @ + 1]
    /\ UNCHANGED env

\* the excitatory neurons in S cross their threshold in one time step: reset
\* (scr_e), the spike monitor, and on_post of their synapses
PostSpike(S) ==
    /\ running
    /\ run.events < MaxEvents
    /\ S # {}
    /\ \A n \in S : can_fire(n)
    /\ LET ee_STDP_on == ~env.test_mode
           XeAe == net.connections.XeAe
           on_post == [i \in Indices(n_input) |-> [n \in Indices(n_e) |->
                         IF n \in S
                           THEN XeAe_on_post(ee_STDP_on, net.stdp[i][n], XeAe[i][n])
                           ELSE [s |-> net.stdp[i][n], w |-> XeAe[i][n]]]]
       IN  net' = [net EXCEPT
                     !.theta = [n \in Indices(n_e) |->
                                  IF n \in S THEN scr_e(env.test_mode, @[n]) ELSE @[n]],
                     !.count = [n \in Indices(n_e) |->
                                  IF n \in S THEN @[n] + 1 ELSE @[n]],
                     !.stdp = [i \in Indices(n_input) |-> [n \in Indices(n_e) |->
                                  on_post[i][n].s]],
                     !.connections.XeAe = [i \in Indices(n_input) |->
                                  [n \in Indices(n_e) |-> on_post[i][n].w]]]
    /\ run' = [run EXCEPT
                 !.events = @ + 1,
                 !.presentation_spikes =
                     [n \in Indices(n_e) |->
                        IF run.pc = "present" /\ n \in S THEN @[n] + 1 ELSE @[n]],
                 !.interval_spikes =
                     [n \in Indices(n_e) |-> IF n \in S THEN @[n] + 1 ELSE @[n]]]
    /\ UNCHANGED env

\* RunDT of simulated time without a spike
Elapse ==
    /\ running
    /\ run.events < MaxEvents
    /\ net' = net_after(env.test_mode, net, RunDT)
    /\ net' # net
    /\ run' = [run EXCEPT !.events = @ + 1]
    /\ UNCHANGED env

\* lines 452-454, once net.run(single_example_time) has returned: the
\* assignments, recomputed every update_interval examples
update_due == run.j % update_interval(env.test_mode) = 0 /\ run.j > 0
new_assignments ==
    IF update_due
      THEN LET ui == update_interval(env.test_mode)
           IN  get_new_assignments(run.result_monitor,
                   [k \in Indices(ui) |-> run.input_labels[run.j - ui + k]])
      ELSE Return(run.assignments)

\* lines 457-459: save_connections and save_theta
save_due ==
    run.j % save_connections_interval = 0 /\ run.j > 0 /\ ~env.test_mode
new_saved ==
    IF save_due THEN run.saved \cup {"weights/XeAe", "weights/theta_A"} ELSE run.saved

\* lines 461-462
new_spike_count_total == net.count
new_spike_count == [n \in Indices(n_e) |-> net.count[n] - run.previous_spike_count[n]]

\* get_new_assignments raises: main ends with the exception
Raised ==
    /\ run.pc = "present"
    /\ new_assignments.err # ""
    /\ run' = [run EXCEPT !.pc = "raised", !.error = new_assignments.err]
    /\ UNCHANGED <<env, net>>

\* lines 452-468: fewer than 5 spikes, up to the start of net.run(resting_time)
Retry_advancing ==
    /\ run.pc = "present"
    /\ new_assignments.err = ""
    /\ np_sum(new_spike_count) < 5
    /\ net' = [net EXCEPT !.rates = zeros(n_input)]
    /\ run' = [run EXCEPT !.pc = "rest_retry",
                          !.assignments = new_assignments.val,
                          !.saved = new_saved,
                          !.current_spike_count = new_spike_count,
                          !.previous_spike_count = net.count,
                          !.presentation_spikes = zeros(n_e),
                          !.interval_spikes = zeros(n_e),
                          !.input_intensity = Min(@ + 1, MaxIntensity),
                          !.j = Min(@ + 1, num_examples(env.test_mode))]
    /\ UNCHANGED env
Retry ==
    /\ run.pc = "present"
    /\ new_assignments.err = ""
    /\ np_sum(new_spike_count) < 5
    /\ net' = [net EXCEPT !.rates = zeros(n_input)]
    /\ run' = [run EXCEPT !.pc = "rest_retry",
                          !.assignments = new_assignments.val,
                          !.saved = new_saved,
                          !.current_spike_count = new_spike_count,
                          !.previous_spike_count = net.count,
                          !.presentation_spikes = zeros(n_e),
                          !.interval_spikes = zeros(n_e),
                          !.input_intensity = Min(@ + 1, MaxIntensity)]
    /\ UNCHANGED env

\* lines 452-463 and 469-486: at least 5 spikes, up to the start of
\* net.run(resting_time)
Advance_unsilenced ==
    /\ run.pc = "present"
    /\ new_assignments.err = ""
    /\ np_sum(new_spike_count) >= 5
    /\ net' = net
    /\ LET r == run.j % update_interval(env.test_mode)
       IN  run' = [run EXCEPT
                     !.pc = "rest_advance",
                     !.assignments = new_assignments.val,
                     !.saved = new_saved,
                     !.current_spike_count = new_spike_count,
                     !.previous_spike_count = net.count,
                     !.presentation_spikes = zeros(n_e),
                     !.interval_spikes = zeros(n_e),
                     !.result_monitor[r] = new_spike_count,
                     !.written = Append(@, <<r, run.j>>),
                     !.input_labels[run.j] = env.data.y[run.j % data_len],
                     !.predicted_class_ranking[run.j] =
                         get_predicted_class_ranking(new_assignments.val, new_spike_count)]
    /\ UNCHANGED env
Advance ==
    /\ run.pc = "present"
    /\ new_assignments.err = ""
    /\ np_sum(new_spike_count) >= 5
    /\ net' = [net EXCEPT !.rates = zeros(n_input)]
    /\ LET r == run.j % update_interval(env.test_mode)
       IN  run' = [run EXCEPT
                     !.pc = "rest_advance",
                     !.assignments = new_assignments.val,
                     !.saved = new_saved,
                     !.current_spike_count = new_spike_count,
                     !.previous_spike_count = net.count,
                     !.presentation_spikes = zeros(n_e),
                     !.interval_spikes = zeros(n_e),
                     !.result_monitor[r] = new_spike_count,
                     !.written = Append(@, <<r, run.j>>),
                     !.input_labels[run.j] = env.data.y[run.j % data_len],
                     !.predicted_class_ranking[run.j] =
                         get_predicted_class_ranking(new_assignments.val, new_spike_count)]
    /\ UNCHANGED env

\* net.run(resting_time) returns after a retry, line 468
Rested ==
    /\ run.pc = "rest_retry"
    /\ run' = [run EXCEPT !.pc = "loop"]
    /\ UNCHANGED <<env, net>>

\* net.run(resting_time) returns after an advance, lines 486-488
Next_example_same_intensity ==
    /\ run.pc = "rest_advance"
    /\ run' = [run EXCEPT !.pc = "loop",
                          !.last_intensity = run.input_intensity,
                          !.norm_calls = 0,
                          !.j = @ + 1]
    /\ UNCHANGED <<env, net>>
Next_example ==
    /\ run.pc = "rest_advance"
    /\ run' = [run EXCEPT !.pc = "loop",
                          !.last_intensity = run.input_intensity,
                          !.norm_calls = 0,
                          !.input_intensity = start_input_intensity,
                          !.j = @ + 1]
    /\ UNCHANGED <<env, net>>

\* lines 490-502: the loop is left and the results are saved
Finish ==
    /\ run.pc = "loop"
    /\ run.j >= num_examples(env.test_mode)
    /\ run' = [run EXCEPT
                 !.pc = "done",
                 !.saved = @ \cup (IF env.test_mode
                                     THEN {"activity/resultPopVecs", "activity/inputLabels"}
                                     ELSE {"weights/theta_A", "weights/XeAe"})]
    /\ UNCHANGED <<env, net>>

\* the steps of main, and the events of the network during net.run
Control ==
    /\ Setup \/ Present \/ Raised \/ Retry \/ Advance \/ Rested \/ Next_example \/ Finish
    /\ UNCHANGED <<syn, fn, nrn, win>>
Spike == (\E i \in Indices(n_input) : PreSpike(i)) /\ UNCHANGED <<syn, fn, nrn, win>>
Fire == (\E S \in SUBSET Indices(n_e) : PostSpike(S)) /\ UNCHANGED <<syn, fn, nrn, win>>
Pass == Elapse /\ UNCHANGED <<syn, fn, nrn, win>>

Next ==
    \/ Setup /\ UNCHANGED <<syn, fn, nrn, win>>
    \/ Present /\ UNCHANGED <<syn, fn, nrn, win>>
    \/ Spike
    \/ Fire
    \/ Pass
    \/ Raised /\ UNCHANGED <<syn, fn, nrn, win>>
    \/ Retry /\ UNCHANGED <<syn, fn, nrn, win>>
    \/ Advance /\ UNCHANGED <<syn, fn, nrn, win>>
    \/ Rested /\ UNCHANGED <<syn, fn, nrn, win>>
    \/ Next_example /\ UNCHANGED <<syn, fn, nrn, win>>
    \/ Finish /\ UNCHANGED <<syn, fn, nrn, win>>

Init == LoopInit /\ syn = SynIdle /\ fn = FnIdle /\ nrn = NrnIdle /\ win = WinIdle

Spec == Init /\ [][Next]_vars

\* the program takes its next step; an input with a positive rate spikes
\* again, a neuron above its threshold fires, and time passes
FairSpec ==
    /\ Spec
    /\ WF_vars(Control)
    /\ SF_vars(Spike)
    /\ SF_vars(Fire)
    /\ SF_vars(Pass)

\* the evaluation of a presentation is completed: main has reached line 464
evaluated == run.pc = "present" /\ run'.pc \in {"rest_retry", "rest_advance"}

\* C2: a presentation evaluated with fewer than 5 excitatory spikes raises the
\* input intensity by exactly 1 (MaxIntensity is where the model stops
\* counting) and leaves j alone, j and the intensity stay as they are until
\* the example is presented again, and j only changes, by one, after an
\* evaluation that counted at least 5 spikes.
C2_RetrySameExample ==
    [][/\ (evaluated /\ np_sum(new_spike_count) < 5)
            => /\ run'.pc = "rest_retry"
               /\ run'.j = run.j
               /\ \/ run'.input_intensity = run.input_intensity + 1
                  \/ run.input_intensity = MaxIntensity
       /\ run.pc \in {"rest_retry", "loop"}
            => /\ run'.j = run.j
               /\ run'.input_intensity = run.input_intensity
       /\ (run.pc = "loop" /\ run'.pc = "present")
            => \A i \in Indices(n_input) :
                   net'.rates[i] = env.data.x[run.j % data_len][i] * run.input_intensity
       /\ run'.j # run.j
            => /\ run'.j = run.j + 1
               /\ np_sum(run.current_spike_count) >= 5]_vars
\* an example is presented again, at the next intensity, after a presentation
\* that made some spikes but fewer than 5
C2_Witness ==
    /\ run.pc = "present"
    /\ run.j = 0
    /\ run.input_intensity = start_input_intensity + 1
    /\ net.rates[0] = 255 * (start_input_intensity + 1)
    /\ np_sum(run.current_spike_count) \in 1 .. 4

\* C3: the loop ends for every data set: main reaches the end of the loop (or
\* at least ends with an exception, or uses up the events of the model).
C3_LoopEnds == <>(run.pc \in {"done", "raised"} \/ run.events = MaxEvents)

\* C5: every weight of XeAe is in [0, wmax_ee] in every state of the loop.
C5_WeightsWithinBounds ==
    run.pc # "idle" =>
        \A i \in Indices(n_input) : \A n \in Indices(n_e) :
            /\ net.connections.XeAe[i][n] >= 0
            /\ net.connections.XeAe[i][n] <= wmax_ee

\* C9: a presentation evaluated with at least 5 excitatory spikes is followed
\* by the rest of an advance, which ends with the intensity back at
\* start_input_intensity and j one higher; j changes in no other way, and an
\* example is presented at the intensity the loop holds.
C9_AdvanceResetsIntensity ==
    [][/\ (evaluated /\ np_sum(new_spike_count) >= 5)
            => /\ run'.pc = "rest_advance"
               /\ run'.j = run.j
       /\ (run.pc = "rest_advance" /\ run'.pc # "rest_advance")
            => /\ run'.pc = "loop"
               /\ run'.j = run.j + 1
               /\ run'.input_intensity = start_input_intensity
       /\ run'.j # run.j
            => /\ run.pc = "rest_advance"
               /\ run'.input_intensity = start_input_intensity
       /\ (run.pc = "loop" /\ run'.pc = "present")
            => /\ run'.input_intensity = run.input_intensity
               /\ \A i \in Indices(n_input) :
                      net'.rates[i] = env.data.x[run.j % data_len][i] * run.input_intensity]_vars
\* the second example is presented for the first time, at the base intensity,
\* after the first example was advanced from a higher intensity
C9_Witness ==
    /\ run.pc = "present"
    /\ run.j = 1
    /\ run.last_intensity > start_input_intensity
    /\ run.input_intensity = start_input_intensity
    /\ net.rates[0] = 255 * start_input_intensity

\* C10: in test mode no step changes a weight, a theta or the assignments,
\* and normalize_weights is not called.
C10_TestModeFrame ==
    [][env.test_mode =>
          /\ net'.connections = net.connections
          /\ net'.theta = net.theta
          /\ run'.assignments = run.assignments
          /\ ~run'.normalized]_vars
\* test mode has run to the end, through a retry, spikes of the input, spikes
\* of the excitatory neurons and an advance
C10_Witness ==
    /\ env.test_mode
    /\ run.pc = "done"
    /\ run.last_intensity > start_input_intensity
    /\ np_sum(net.count) >= 5
    /\ \E n \in Indices(n_e) : net.theta[n] = 20 * mV

\* C11 as stated: in training mode no step lowers the theta of a neuron.
C11_ThetaNonDecreasing ==
    [][~env.test_mode =>
          \A n \in Indices(n_e) : net'.theta[n] >= net.theta[n]]_vars
\* C11: in training mode a spike of a neuron raises its theta by theta_plus_e
\* and lowers no theta; a step without a spike raises no theta, and the time
\* that passes lowers every theta towards 0, by theta / tc_theta per unit of
\* time.
C11_ThetaRisesBySpikeDecaysByTime ==
    [][~env.test_mode =>
          \A n \in Indices(n_e) :
              IF net'.count[n] > net.count[n]
                THEN net'.theta[n] = net.theta[n] + theta_plus_e
                ELSE /\ net'.theta[n] <= net.theta[n]
                     /\ net'.theta[n] >= 0
                     /\ net'.theta[n] < net.theta[n]
                          => /\ net'.count = net.count
                             /\ net'.theta[n] =
                                  net.theta[n] - net.theta[n] \div (tc_theta \div RunDT)]_vars
\* training mode: one neuron has fired and time has passed, so that its theta
\* is above the initial 20 mV and the theta of the other neuron below it
C11_Witness ==
    /\ run.pc # "idle"
    /\ ~env.test_mode
    /\ \E n \in Indices(n_e) : net.count[n] > 0 /\ net.theta[n] > 20 * mV
    /\ \E n \in Indices(n_e) : net.count[n] = 0 /\ net.theta[n] < 20 * mV

\* C12: when a required file cannot be loaded, main is at its start or has
\* ended with the exception of np.load: no example was presented, no event of
\* the network happened, no weight was normalized and nothing was saved.
C12_LoadFailureAborts ==
    (run.pc # "idle" /\ env.unloadable # {}) =>
        /\ run.pc \in {"setup", "raised"}
        /\ run.pc = "raised" => run.error = "OSError"
        /\ run.events = 0
        /\ run.j = 0
        /\ ~run.normalized
        /\ run.saved = {}
        /\ net.rates = zeros(n_input)
        /\ net.count = zeros(n_e)
\* main has ended at the load of theta_A.npy, the other files being readable
C12_Witness ==
    /\ run.pc = "raised"
    /\ run.error = "OSError"
    /\ env.unloadable = {"theta_A"}

\* C13 as stated: normalize_weights is called at most once for an example
\* index, and not on an iteration that ends in a retry.
C13_SideEffectsOnlyInAdvance ==
    run.pc # "idle" =>
        /\ run.norm_calls <= 1
        /\ run.pc = "rest_retry" => run.norm_calls = 0
\* C13: in training mode normalize_weights is called at the head of every
\* iteration of the loop, once more for each presentation of the same j
\* (counted up to MaxCalls), and by no other step; in test mode it is not
\* called.  The assignments and the saved files are only touched after a
\* presentation at a j > 0 that is a multiple of the interval, before the
\* evaluation: there get_new_assignments raises and main ends, so that inside
\* the loop no step changes the assignments or saves a file; the files are
\* saved when the loop is left.
C13_NormalizedEveryIteration ==
    [][/\ (run.pc = "loop" /\ run'.pc = "present")
            => IF env.test_mode
                 THEN /\ net'.connections = net.connections
                      /\ run'.norm_calls = 0
                 ELSE /\ net'.connections = normalize_weights(net.connections, weight)
                      /\ run'.norm_calls = Min(run.norm_calls + 1, MaxCalls)
       /\ ~(run.pc = "loop" /\ run'.pc = "present")
            => /\ run'.norm_calls \in {run.norm_calls, 0}
               /\ run'.norm_calls # run.norm_calls => run'.j = run.j + 1
       /\ (run.pc = "present" /\ run'.pc # "present" /\ update_due)
            => run'.pc = "raised"
       /\ run'.assignments = run.assignments
       /\ run'.saved # run.saved => run'.pc = "done"]_vars
\* training mode: the same example is presented for the second time, after
\* an iteration that ended in a retry, and the weights were normalized at the
\* head of both iterations
C13_Witness ==
    /\ run.pc = "present"
    /\ ~env.test_mode
    /\ run.j = 0
    /\ run.norm_calls = 2
    /\ run.input_intensity = start_input_intensity + 1

\* C14: a presentation run is left for a rest run (or main ends with an
\* exception), with every input rate set to 0; the rates stay 0 during the
\* rest run and until the next presentation run, which starts from the head
\* of the loop, and the head of the loop is only reached from a rest run (or
\* from the start of main): between two presentation runs there is exactly
\* one rest run.
C14_RestBetweenPresentations ==
    [][/\ (run.pc = "present" /\ run'.pc # "present")
            => /\ run'.pc \in {"rest_retry", "rest_advance", "raised"}
               /\ run'.pc # "raised" => net'.rates = zeros(n_input)
       /\ run.pc \in {"rest_retry", "rest_advance"}
            => /\ net.rates = zeros(n_input)
               /\ net'.rates = zeros(n_input)
               /\ run'.pc \in {run.pc, "loop"}
       /\ run.pc = "loop"
            => /\ net.rates = zeros(n_input)
               /\ run'.pc \in {"loop", "present", "done"}
       /\ (run'.pc = "loop" /\ run.pc # "loop")
            => run.pc \in {"setup", "rest_retry", "rest_advance"}
       /\ (run'.pc = "present" /\ run.pc # "present")
            => run.pc = "loop"]_vars
\* a rest run after an advance, with silent inputs, during which a neuron
\* has fired, of an example with a pixel above 0
C14_Witness ==
    /\ run.pc = "rest_advance"
    /\ net.rates = zeros(n_input)
    /\ env.data.x[run.j % data_len][0] > 0
    /\ np_sum(net.count) > np_sum(run.previous_spike_count)

(***************************************************************************)
(* SpecNrn: one neuron of neuron_groups['e'] (lines 277-292, 320-321),     *)
(* one time step of NrnDT after the other.  Brian2 integrates the          *)
(* equations, then tests the threshold, then resets.  The membrane         *)
(* equation is not integrated: the potential a step ends with is drawn     *)
(* from VSamples, unless the neuron is refractory (dv/dt ... (unless       *)
(* refractory)).  nrn.since is t - lastspike, nrn.above records whether    *)
(* the potential was above theta - offset + v_thresh_e at the last test.   *)
(***************************************************************************)
MaxNrnSteps == 60
NrnDT == 1 * ms
refrac_e == 5 * ms
v_reset_e == 0 - 65 * mV
VSamples == {v_rest_e, 0 - 40 * mV}

\* v_thresh_e_str, line 277
v_thresh_e_str(v, theta, timer) ==
    (v > (theta - offset + v_thresh_e)) /\ (timer > refrac_e)

\* dtimer/dt = 0.1, line 292, integrated over dt
timer_after(timer, dt) == timer + dt \div 10

\* refractory=refrac_e, line 321: Brian2 computes not_refractory from
\* t - lastspike and tests the threshold of a neuron only when it holds
not_refractory(since) == since >= refrac_e

NrnInit ==
    \E test_mode \in BOOLEAN :
    \E theta \in IF test_mode THEN {20 * mV, 5 * mV} ELSE {20 * mV} :
        nrn = [test_mode |-> test_mode,
               v |-> v_rest_e - 40 * mV,
               theta |-> theta,
               timer |-> 0,
               since |-> 10000 * second,
               count |-> 0,
               steps |-> 0,
               above |-> FALSE]

\* one time step, the potential moving to vin
NrnStep(vin) ==
    /\ nrn.steps < MaxNrnSteps
    /\ LET v1 == IF not_refractory(nrn.since) THEN vin ELSE nrn.v
           theta1 == theta_after(nrn.test_mode, nrn.theta, NrnDT)
           timer1 == timer_after(nrn.timer, NrnDT)
           spike == v_thresh_e_str(v1, theta1, timer1) /\ not_refractory(nrn.since)
       IN  nrn' = [nrn EXCEPT
                     !.v = IF spike THEN v_reset_e ELSE v1,
                     !.theta = IF spike THEN scr_e(nrn.test_mode, theta1) ELSE theta1,
                     !.timer = IF spike THEN 0 ELSE timer1,
                     !.since = IF spike THEN NrnDT ELSE @ + NrnDT,
                     !.count = IF spike THEN @ + 1 ELSE @,
                     !.steps = @ + 1,
                     !.above = v1 > theta1 - offset + v_thresh_e]

NrnNext ==
    (\E vin \in VSamples : NrnStep(vin)) /\ UNCHANGED <<syn, fn, env, net, run, win>>

NrnStart ==
    /\ NrnInit
    /\ syn = SynIdle /\ fn = FnIdle /\ env = EnvIdle /\ net = NetIdle /\ run = RunIdle
    /\ win = WinIdle

SpecNrn == NrnStart /\ [][NrnNext]_vars

\* C15: a neuron fires in no time step that comes less than refrac_e after
\* its last spike, and in every time step that comes refrac_e or more after
\* it and ends with the potential above theta - offset + v_thresh_e.
C15_BlockedExactlyRefractory ==
    [][/\ nrn'.count > nrn.count => nrn.since >= refrac_e
       /\ (nrn.count > 0 /\ nrn.since >= refrac_e /\ nrn'.above)
            => nrn'.count = nrn.count + 1]_vars

\* C16: a pre-spike handler never raises the weight and a post-spike handler
\* never lowers it, for a weight in [0, wmax] and traces that are not
\* negative (here: the first event of a synapse, whose traces are drawn from
\* TraceSamples).
C16_PreDepressesPostPotentiates ==
    (/\ syn.last \in {"pre", "post"}
     /\ syn.n = 1
     /\ 0 <= syn.w_before
     /\ syn.w_before <= wmax_of(syn.c, syn.ns, syn.last))
        => /\ syn.last = "pre" => syn.s.w <= syn.w_before
           /\ syn.last = "post" => syn.s.w >= syn.w_before

\* the rates that scale a weight increase in a post-spike handler
PotentiationRates == {"nu_ee_post", "nu_pair_post", "nu_triple_post", "nu",
                      "nu_post"}

\* the value a parameter is configured with: the custom_namespace entry when
\* there is one, else the default of the selected rules
Configured(c, k) ==
    namespace(c.stdp_on, c.stp_on, c.stdp_rule, c.stp_rule,
              c.custom_namespace, None)[k]

\* C17: with nu_factor given, every potentiation-type learning rate of the
\* effective namespace is its configured value times nu_factor and every
\* other parameter keeps its configured value, custom_namespace overrides
\* included.
C17_NuFactorScalesPotentiation ==
    (syn.last # "idle" /\ syn.c.nu_factor # None) =>
        \A k \in DOMAIN syn.ns :
            syn.ns[k] = IF k \in PotentiationRates
                          THEN Configured(syn.c, k) * syn.c.nu_factor
                          ELSE Configured(syn.c, k)

\* C19 as stated: the vector evaluated after a presentation counts the spikes
\* of that presentation run only, and no entry is negative.
C19_CountsOnlyPresentation ==
    [][evaluated =>
         /\ run'.current_spike_count = run.presentation_spikes
         /\ \A n \in Indices(n_e) : run'.current_spike_count[n] >= 0]_vars

\* C19: the vector evaluated after a presentation counts, per excitatory
\* neuron, the spikes since the previous evaluation, those of the rest run
\* before the presentation included and those of earlier presentations
\* excluded; no entry is negative and none is below the neuron's spikes of
\* the presentation.
C19_CountsSinceLastEvaluation ==
    [][evaluated =>
         /\ run'.current_spike_count = run.interval_spikes
         /\ \A n \in Indices(n_e) :
               /\ run'.current_spike_count[n] >= 0
               /\ run'.current_spike_count[n] >= run.presentation_spikes[n]]_vars

\* a presentation after a retry, and so after a rest run, was evaluated and
\* spikes were counted
C19_Witness ==
    /\ run.pc = "rest_retry"
    /\ run.norm_calls >= 2
    /\ np_sum(run.current_spike_count) > 0

\* the percentage of the examples of S whose rank-0 predicted class is their
\* label
PercentCorrect(pred_ranking, labels, S) ==
    (100 * Cardinality({k \in S : pred_ranking[k][0] = labels[k]}))
        \div Cardinality(S)

\* C20: the performance computed at index j is a percentage in [0, 100], that
\* of the most recent PerfInterval processed examples (the window that ends
\* with example j, or the one that ends with example j - 1) whose rank-0
\* predicted class is their label.
C20_PerformanceOfRecentExamples ==
    (fn.op = "performance" /\ fn.done) =>
        /\ 0 <= fn.out /\ fn.out <= 100
        /\ \/ fn.out = PercentCorrect(fn.predicted_class_ranking, fn.input_labels,
                                     (fn.j - PerfInterval + 1) .. fn.j)
           \/ fn.out = PercentCorrect(fn.predicted_class_ranking, fn.input_labels,
                                     (fn.j - PerfInterval) .. (fn.j - 1))

(***************************************************************************)
(* SpecWin: the bookkeeping of the loop of main, lines 422-488, over an    *)
(* update interval of more than one example.  The network is not           *)
(* simulated: net.run adds drawn spikes to the spike counter.  win records *)
(* the variables of main and, besides them, retries (the retries of the    *)
(* current example), retried (an example has been retried) and written     *)
(* (the rows of result_monitor written so far).                            *)
(***************************************************************************)
\* config.update_interval, lines 199-235, scaled: test mode runs one interval
\* of examples, train mode several
WinInterval == 2
WinExamples(test_mode) == IF test_mode THEN WinInterval ELSE 2 * WinInterval
\* the length of training['y'] and testing['y']
WinDataLen == WinInterval
\* the retries of one example the model follows
WinMaxRetries == 1
\* the spikes of the excitatory neurons in a presentation run and in a rest run
PresentationSpikes == [Indices(n_e) -> {0, 3}]
RestSpikes == {[n \in Indices(n_e) |-> IF n = 0 THEN c ELSE 0] : c \in {0, 1}}

vector_add(a, b) == [n \in DOMAIN a |-> a[n] + b[n]]
vector_sub(a, b) == [n \in DOMAIN a |-> a[n] - b[n]]

\* lines 422-425 and 431-435
WinInit ==
    \E test_mode \in BOOLEAN : \E y \in [Indices(WinDataLen) -> Labels] :
        win = [pc |-> "loop",
               test_mode |-> test_mode,
               y |-> y,
               j |-> 0,
               input_intensity |-> start_input_intensity,
               count |-> zeros(n_e),
               previous_spike_count |-> zeros(n_e),
               current_spike_count |-> zeros(n_e),
               result_monitor |-> [r \in Indices(WinInterval) |-> zeros(n_e)],
               input_labels |-> [k \in Indices(WinExamples(test_mode)) |-> 0],
               assignments |-> zeros(n_e),
               retries |-> 0,
               retried |-> FALSE,
               written |-> << >>,
               error |-> ""]

\* lines 436-450: the presentation run of example j
WinPresent(spikes) ==
    /\ win.pc = "loop"
    /\ win.j < WinExamples(win.test_mode)
    /\ win.retries >= WinMaxRetries => np_sum(spikes) >= 5
    /\ win' = [win EXCEPT !.pc = "present", !.count = vector_add(@, spikes)]

\* lines 452-454
win_update_due == win.j % WinInterval = 0 /\ win.j > 0
win_label_slice == [k \in Indices(WinInterval) |-> win.input_labels[win.j - WinInterval + k]]
win_new_assignments ==
    IF win_update_due
      THEN get_new_assignments(win.result_monitor, win_label_slice)
      ELSE Return(win.assignments)

\* get_new_assignments raises: main ends with the exception
WinRaised ==
    /\ win.pc = "present"
    /\ win_new_assignments.err # ""
    /\ win' = [win EXCEPT !.pc = "raised", !.error = win_new_assignments.err]

\* lines 461-462
win_new_spike_count == vector_sub(win.count, win.previous_spike_count)

\* lines 461-468: fewer than 5 spikes, the rest run included
WinRetry(rest) ==
    /\ win.pc = "present"
    /\ win_new_assignments.err = ""
    /\ np_sum(win_new_spike_count) < 5
    /\ win' = [win EXCEPT !.pc = "loop",
                          !.assignments = win_new_assignments.val,
                          !.current_spike_count = win_new_spike_count,
                          !.previous_spike_count = win.count,
                          !.input_intensity = Min(@ + 1, MaxIntensity),
                          !.count = vector_add(@, rest),
                          !.retries = @ + 1,
                          !.retried = TRUE]

\* lines 461-463 and 469-486: at least 5 spikes, the rest run included
WinAdvance_shifted(rest) ==
    /\ win.pc = "present"
    /\ win_new_assignments.err = ""
    /\ np_sum(win_new_spike_count) >= 5
    /\ LET r == (win.j + 1) % WinInterval
       IN  win' = [win EXCEPT
                     !.pc = "loop",
                     !.assignments = win_new_assignments.val,
                     !.current_spike_count = win_new_spike_count,
                     !.previous_spike_count = win.count,
                     !.result_monitor[r] = win_new_spike_count,
                     !.input_labels[win.j] = win.y[win.j % WinDataLen],
                     !.written = Append(@, [row |-> r, j |-> win.j,
                                            vector |-> win_new_spike_count]),
                     !.count = vector_add(@, rest),
                     !.input_intensity = start_input_intensity,
                     !.retries = 0,
                     !.j = @ + 1]
WinAdvance(rest) ==
    /\ win.pc = "present"
    /\ win_new_assignments.err = ""
    /\ np_sum(win_new_spike_count) >= 5
    /\ LET r == win.j % WinInterval
       IN  win' = [win EXCEPT
                     !.pc = "loop",
                     !.assignments = win_new_assignments.val,
                     !.current_spike_count = win_new_spike_count,
                     !.previous_spike_count = win.count,
                     !.result_monitor[r] = win_new_spike_count,
                     !.input_labels[win.j] = win.y[win.j % WinDataLen],
                     !.written = Append(@, [row |-> r, j |-> win.j,
                                            vector |-> win_new_spike_count]),
                     !.count = vector_add(@, rest),
                     !.input_intensity = start_input_intensity,
                     !.retries = 0,
                     !.j = @ + 1]

\* line 436: the loop ends
WinFinish ==
    /\ win.pc = "loop"
    /\ win.j >= WinExamples(win.test_mode)
    /\ win' = [win EXCEPT !.pc = "done"]

WinNext ==
    \/ (\E spikes \in PresentationSpikes : WinPresent(spikes))
          /\ UNCHANGED <<syn, fn, env, net, run, nrn>>
    \/ WinRaised /\ UNCHANGED <<syn, fn, env, net, run, nrn>>
    \/ (\E rest \in RestSpikes : WinRetry(rest))
          /\ UNCHANGED <<syn, fn, env, net, run, nrn>>
    \/ (\E rest \in RestSpikes : WinAdvance(rest))
          /\ UNCHANGED <<syn, fn, env, net, run, nrn>>
    \/ WinFinish /\ UNCHANGED <<syn, fn, env, net, run, nrn>>

WinStart ==
    /\ WinInit
    /\ syn = SynIdle /\ fn = FnIdle /\ env = EnvIdle /\ net = NetIdle
    /\ run = RunIdle /\ nrn = NrnIdle

SpecWin == WinStart /\ [][WinNext]_vars

\* get_new_assignments is about to be called (line 453)
recomputing == win.pc = "present" /\ win_update_due

\* the entries of written that belong to example e
WrittenBy(e) == {i \in 1 .. Len(win.written) : win.written[i].j = e}

\* C18: when assignments are recomputed at index j, row k of the result
\* window, for every k, holds the vector of example j - update_interval + k,
\* written once, by the advance of that example, and not overwritten since,
\* and entry k of the label slice passed with it is the label of that
\* example; a step that does not advance j writes no row.
C18_WindowHoldsLastInterval ==
    /\ [](recomputing =>
            \A k \in Indices(WinInterval) :
                LET e == win.j - WinInterval + k
                IN  /\ Cardinality(WrittenBy(e)) = 1
                    /\ \A i \in WrittenBy(e) :
                          /\ win.written[i].row = k
                          /\ win.written[i].vector = win.result_monitor[k]
                    /\ \A i \in 1 .. Len(win.written) :
                          win.written[i].row = k => win.written[i].j <= e
                    /\ win_label_slice[k] = win.y[e % WinDataLen])
    /\ [][(win'.result_monitor # win.result_monitor \/ win'.written # win.written)
            => (win.pc = "present" /\ np_sum(win_new_spike_count) >= 5
                /\ win'.j = win.j + 1)]_vars

\* assignments are recomputed after a retry, over a window whose rows differ
\* and whose labels differ
C18_Witness ==
    /\ recomputing
    /\ win.retried
    /\ win.result_monitor[0] # win.result_monitor[1]
    /\ win_label_slice[0] # win_label_slice[1]
====
